---- MODULE Spec2Model ----
(***************************************************************************)
(* Wordle guessing engine of N-Gulati/PythonProjects (src/Wordle).         *)
(*                                                                         *)
(* Words are 5-tuples of one-letter strings, feedback patterns are tuples  *)
(* over "G", "Y", "B".  Scores are Python floats in the source; here they  *)
(* are fixed-point integers: weights in tenths, the uniqueness penalty in  *)
(* thousandths, entropies in thousandths of a bit (log2 from a table).     *)
(* A composite score is therefore the source's score times 10000, up to    *)
(* the rounding of the two tables.                                         *)
(***************************************************************************)
EXTENDS Integers, Sequences, FiniteSets, TLC

VARIABLES
    prog,               \* which program runs: "optimizer", "simulator", "player"
    WORD_LIST,          \* the dictionary read by load_data
    answer,             \* the hidden answer of a simulated game
    weights,            \* [base, positional, entropy], in tenths
    words,              \* the candidate list of the game
    remaining_guesses,
    guesses,            \* the guesses list of simulate_game
    entropy_scores,     \* word -> entropy, thousandths of a bit
    guess,              \* the last guess selected
    result,             \* the last feedback computed or typed in
    pc,                 \* position of the game
    attempts,           \* third component of simulate_game's return value
    call                \* record of a call of a pure function

vars == <<prog, WORD_LIST, answer, weights, words, remaining_guesses, guesses,
          entropy_scores, guess, result, pc, attempts, call>>

gameVars == <<prog, WORD_LIST, answer, weights, words, remaining_guesses,
              guesses, entropy_scores, guess, result, pc, attempts>>

-----------------------------------------------------------------------------
(* Letters, words, dictionaries *)

Alphabet == <<"A","B","C","D","E","F","G","H","I","J","K","L","M",
              "N","O","P","Q","R","S","T","U","V","W","X","Y","Z">>

Ord(c) == CHOOSE k \in 1..Len(Alphabet) : Alphabet[k] = c

\* range(5), the word length every loop of the source hard-codes
WordLen == 5

CRANE == <<"C","R","A","N","E">>
CRONE == <<"C","R","O","N","E">>
TRACE == <<"T","R","A","C","E">>
SPEED == <<"S","P","E","E","D">>
ABIDE == <<"A","B","I","D","E">>
ERASE == <<"E","R","A","S","E">>

\* how many words of the ?ATCH family a dictionary may draw from
NumOnsets == 7

Onsets == <<"B","C","H","L","M","P","W","N","R","K">>

AtchFamily == { <<Onsets[k],"A","T","C","H">> : k \in 1..NumOnsets }

CraneFamily == {CRANE, CRONE, TRACE}

SpeedFamily == {ABIDE, ERASE, SPEED}

Families == {AtchFamily, CraneFamily, SpeedFamily}

Lexicon == UNION Families

NoWord == <<>>

\* u sorts strictly before v (Python's str comparison on equal-length words)
LexLess(u, v) ==
    \E i \in 1..WordLen :
        /\ \A j \in 1..(i-1) : u[j] = v[j]
        /\ Ord(u[i]) < Ord(v[i])

RECURSIVE SortedSeq(_)
\* sorted(five_letter_words): the order compile_dict.py writes wordlist_5.csv in
SortedSeq(S) ==
    IF S = {} THEN <<>>
    ELSE LET m == CHOOSE x \in S : \A y \in S \ {x} : LexLess(x, y)
         IN  <<m>> \o SortedSeq(S \ {m})

Range(s) == { s[k] : k \in 1..Len(s) }

IsSorted(s) == \A j, k \in 1..Len(s) : j < k => LexLess(s[j], s[k])

\* the dictionaries wordlist_5.csv may hold (sorted, without repetition): every
\* non-empty part of the two small families, every single word, and the first
\* n words of the ?ATCH family
Dictionaries ==
    { SortedSeq(S) : S \in (SUBSET CraneFamily \cup SUBSET SpeedFamily) \ {{}} }
      \cup { <<word>> : word \in Lexicon }
      \cup { SubSeq(SortedSeq(AtchFamily), 1, n) : n \in 1..NumOnsets }

-----------------------------------------------------------------------------
(* Feedback *)

Symbols == {"G", "Y", "B"}

AllG == <<"G","G","G","G","G">>

NoCall == [fn |-> "none"]

\* the well-formed feedback strings
Patterns == [1..WordLen -> Symbols]

\* strings that are no feedback pattern: empty, short, long, foreign symbols
Malformed == { <<>>, <<"G","G">>, <<"G","G","G","G","G","B">>,
               <<"X","X","X","X","X">>, <<"G","G","X","G","G">> }

IsPattern(r) == Len(r) = WordLen /\ \A i \in 1..Len(r) : r[i] \in Symbols

\* g_letter in word
InWord(c, w) == \E k \in 1..Len(w) : w[k] = c

\* str.count
Count(c, w) == Cardinality({ k \in 1..Len(w) : w[k] = c })

Min(a, b) == IF a < b THEN a ELSE b

\* the feedback as written with its two tests in the other order
FeedbackYellowFirst(g, a) ==
    [ i \in 1..WordLen |->
        IF InWord(g[i], a) THEN "Y"
        ELSE IF g[i] = a[i] THEN "G" ELSE "B" ]

\* "G" if guess[i] == answer[i] else "B": a feedback that reports no Present
FeedbackNoPresent(g, a) ==
    [ i \in 1..WordLen |-> IF g[i] = a[i] THEN "G" ELSE "B" ]

\* "G" if guess[i] == answer[i] else ("Y" if guess[i] in answer else "B")
Feedback(g, a) ==
    [ i \in 1..WordLen |->
        IF g[i] = a[i] THEN "G"
        ELSE IF InWord(g[i], a) THEN "Y" ELSE "B" ]

RECURSIVE TwoPassFrom(_, _, _, _)
\* pass 2 of section 4.1 from position i on, rem the remaining-count table
TwoPassFrom(g, a, i, rem) ==
    IF i > WordLen THEN <<>>
    ELSE IF g[i] = a[i] THEN <<"G">> \o TwoPassFrom(g, a, i + 1, rem)
    ELSE IF rem[g[i]] > 0
         THEN <<"Y">> \o TwoPassFrom(g, a, i + 1, [rem EXCEPT ![g[i]] = @ - 1])
         ELSE <<"B">> \o TwoPassFrom(g, a, i + 1, rem)

\* section 4.1: pass 1 marks Correct and decrements, pass 2 marks Present/Absent
TwoPass(g, a) ==
    LET letters == Range(g) \cup Range(a)
        rem1 == [ c \in letters |->
                    Count(c, a) - Cardinality({ k \in 1..WordLen : g[k] = c /\ a[k] = c }) ]
    IN  TwoPassFrom(g, a, 1, rem1)

-----------------------------------------------------------------------------
(* Candidate filter *)

\* one ad hoc per-symbol rule of filter_words, with < for <= in the Absent rule
RejectsStrict(word, g, r, i) ==
    \/ r[i] = "G" /\ word[i] # g[i]
    \/ r[i] = "Y" /\ (~InWord(g[i], word) \/ word[i] = g[i])
    \/ r[i] = "B" /\ InWord(g[i], word) /\ Count(g[i], g) < Count("B", r)

\* the per-symbol rule without its Absent line
RejectsNoAbsent(word, g, r, i) ==
    \/ r[i] = "G" /\ word[i] # g[i]
    \/ r[i] = "Y" /\ (~InWord(g[i], word) \/ word[i] = g[i])

\* the condition of lines 56-58 at position i (0-based i of the source, plus 1)
Rejects(word, g, r, i) ==
    \/ r[i] = "G" /\ word[i] # g[i]
    \/ r[i] = "Y" /\ (~InWord(g[i], word) \/ word[i] = g[i])
    \/ r[i] = "B" /\ InWord(g[i], word) /\ Count(g[i], g) <= Count("B", r)

\* the inner loop: zip(guess, result) stops at the shorter of the two
Match(word, g, r) ==
    \A i \in 1..Min(Len(g), Len(r)) : ~Rejects(word, g, r, i)

\* filter_words iterating over words[1:] instead of words
filter_words_skip_first(ws, g, r) ==
    SelectSeq(IF ws = <<>> THEN ws ELSE Tail(ws), LAMBDA word : Match(word, g, r))

\* filter_words applied to the whole dictionary instead of the candidates
filter_words_from_dictionary(ws, g, r) ==
    SelectSeq(WORD_LIST, LAMBDA word : Match(word, g, r))

\* filter_words: the words of the list, in order, that no position rejects
filter_words(ws, g, r) ==
    SelectSeq(ws, LAMBDA word : Match(word, g, r))

-----------------------------------------------------------------------------
(* Frequencies, entropy, composite score *)

RECURSIVE SumFn(_, _)
\* sum(f[x] for x in S)
SumFn(f, S) ==
    IF S = {} THEN 0
    ELSE LET x == CHOOSE y \in S : TRUE
         IN  f[x] + SumFn(f, S \ {x})

\* a count of the words that contain c, one per word
letter_frequency_presence(ws, c) ==
    Cardinality({ k \in 1..Len(ws) : InWord(c, ws[k]) })

\* Counter(chain.from_iterable(words))[c]: every occurrence of c in every word
letter_frequency(ws, c) ==
    Cardinality({ ki \in (1..Len(ws)) \X (1..WordLen) : ws[ki[1]][ki[2]] = c })

\* positional_freq[i][c]: the words with c at position i
positional_frequency(ws, i, c) ==
    Cardinality({ k \in 1..Len(ws) : ws[k][i] = c })

\* round(1000 * (d / 5) ** 1.5) for d = len(set(word)) in 1..5
UniquenessMilli == <<89, 253, 465, 716, 1000>>

\* round(1000 * log2(n)) for n in 1..16
Log2Milli == <<0, 1000, 1585, 2000, 2322, 2585, 2807, 3000,
               3170, 3322, 3459, 3585, 3700, 3807, 3907, 4000>>

\* feedback_patterns[pattern] = 1 in place of feedback_patterns[pattern] += 1
feedback_patterns_assigned(word, ws) ==
    LET keys == { Feedback(word, ws[k]) : k \in 1..Len(ws) }
    IN  [ p \in keys |-> 1 ]

\* feedback_patterns of compute_entropy: pattern -> number of words giving it
feedback_patterns(word, ws) ==
    LET keys == { Feedback(word, ws[k]) : k \in 1..Len(ws) }
    IN  [ p \in keys |-> Cardinality({ k \in 1..Len(ws) : Feedback(word, ws[k]) = p }) ]

\* -sum(p * log2(count)): the logarithm taken of the count, not of p
compute_entropy_log_count(word, ws) ==
    LET fp    == feedback_patterns(word, ws)
        total == SumFn(fp, DOMAIN fp)
        keys  == (DOMAIN fp) \cap [1..WordLen -> Symbols]
        clog  == [ p \in keys |-> fp[p] * Log2Milli[fp[p]] ]
    IN  (0 - SumFn(clog, keys)) \div total

\* compute_entropy: -sum(p * log2(p)) over the patterns of ALL_POSSIBLE_PATTERNS
\* with p > 0, p = count / total; in thousandths of a bit,
\* log2(total) - sum(count * log2(count)) / total
compute_entropy(word, ws) ==
    LET fp    == feedback_patterns(word, ws)
        total == SumFn(fp, DOMAIN fp)
        keys  == (DOMAIN fp) \cap [1..WordLen -> Symbols]
        clog  == [ p \in keys |-> fp[p] * Log2Milli[fp[p]] ]
    IN  (total * Log2Milli[total] - SumFn(clog, keys)) \div total

\* the table of the whole dictionary, whatever the list
compute_entropy_scores_of_dictionary(ws) ==
    [ word \in Range(WORD_LIST) |-> compute_entropy(word, WORD_LIST) ]

\* compute_entropy_scores: {word: entropy} for the words of the list
compute_entropy_scores(ws) ==
    [ word \in Range(ws) |-> compute_entropy(word, ws) ]

\* entropy_scores.get(word, 0)
EntropyGet(tbl, word) == IF word \in DOMAIN tbl THEN tbl[word] ELSE 0

\* score_word, times 10000
score_word(word, ws, tbl, w) ==
    LET letters          == Range(word)
        base_score       == SumFn([ c \in letters |-> letter_frequency(ws, c) ], letters)
        positional_score == SumFn([ i \in 1..WordLen |->
                                      positional_frequency(ws, i, word[i]) ], 1..WordLen)
        uniqueness       == UniquenessMilli[Cardinality(letters)]
    IN  w.base * base_score * 1000
          + w.positional * positional_score * uniqueness
          + w.entropy * EntropyGet(tbl, word)

\* the defaults w_base=0.4, w_positional=0.4, w_entropy=0.2
DefaultWeights == [base |-> 4, positional |-> 4, entropy |-> 2]

\* max() taken as returning the last of several maximal words
ArgMaxLast(ws, sc) ==
    LET k == CHOOSE j \in 1..Len(ws) :
                 /\ \A m \in 1..Len(ws) : sc[m] <= sc[j]
                 /\ \A m \in (j+1)..Len(ws) : sc[m] < sc[j]
    IN  ws[k]

\* max(words, key=...): the first word of the list whose key is maximal
ArgMaxFirst(ws, sc) ==
    LET k == CHOOSE j \in 1..Len(ws) :
                 /\ \A m \in 1..Len(ws) : sc[m] <= sc[j]
                 /\ \A m \in 1..(j-1) : sc[m] < sc[j]
    IN  ws[k]

\* best_guess of wordle_player_optimizer_v1 and wordle_simulator_v1 (ws non-empty)
best_guess(ws, tbl, w) ==
    ArgMaxFirst(ws, [ k \in 1..Len(ws) |-> score_word(ws[k], ws, tbl, w) ])

\* best_guess of world_player_v1: the entropy table is recomputed from the
\* candidates unless this is the first turn
player_best_guess(ws, remaining, tbl, w) ==
    LET table == IF remaining # 6 THEN compute_entropy_scores(ws) ELSE tbl
    IN  ArgMaxFirst(ws, [ k \in 1..Len(ws) |-> score_word(ws[k], ws, table, w) ])

-----------------------------------------------------------------------------
(* Simulated games: simulate_game of wordle_player_optimizer_v1 ("optimizer") *)
(* and of wordle_simulator_v1 ("simulator")                                   *)

\* weight points handed to simulate_game: the defaults, and corners of the grid
WeightPoints ==
    { DefaultWeights,
      [base |-> 0,  positional |-> 0,  entropy |-> 10],
      [base |-> 10, positional |-> 0,  entropy |-> 0],
      [base |-> 0,  positional |-> 10, entropy |-> 0] }

\* for _ in range(7)
LoopTurnsOffByOne == 6 + 1

\* for _ in range(6)
LoopTurns == 6

\* remaining_guesses = 6
InitialGuesses == 6

\* entropy_scores as load_data leaves it: {} without entropy_scores.csv, else
\* the table precompute_entropy.py wrote for the dictionary
LoadedEntropy(d) == { <<>>, compute_entropy_scores(d) }

InitSimulation ==
    /\ prog \in {"optimizer", "simulator"}
    /\ WORD_LIST \in Dictionaries
    /\ answer \in Range(WORD_LIST)
    /\ weights \in WeightPoints
    /\ entropy_scores \in LoadedEntropy(WORD_LIST)
    /\ words = WORD_LIST
    /\ remaining_guesses = InitialGuesses
    /\ guesses = <<>>
    /\ guess = NoWord /\ result = <<>>
    /\ pc = "loop" /\ attempts = -1
    /\ call = NoCall

\* return answer, guesses, remaining_guesses
solved_attempts_remaining(gs) == InitialGuesses - Len(gs)

\* return answer, guesses, len(guesses)
solved_attempts(gs) == Len(gs)

\* one iteration of the loop of simulate_game; decrement tells whether the
\* variant has the line remaining_guesses -= 1, w the weights it passes on
SimulationTurn(w, decrement) ==
    /\ pc = "loop" /\ Len(guesses) < LoopTurns
    /\ IF words = <<>>
       THEN \* max() of an empty list
            /\ pc' = "ValueError"
            /\ UNCHANGED <<guess, remaining_guesses, guesses, result, words,
                           entropy_scores, attempts>>
       ELSE LET g == best_guess(words, entropy_scores, w)
            IN  /\ guess' = g
                /\ remaining_guesses' = remaining_guesses - decrement
                /\ guesses' = Append(guesses, g)
                /\ IF g = answer
                   THEN /\ pc' = "returned"
                        /\ attempts' = solved_attempts(guesses')
                        /\ UNCHANGED <<result, words, entropy_scores>>
                   ELSE LET r == Feedback(g, answer)
                            new_words == filter_words(words, g, r)
                        IN  /\ result' = r
                            /\ words' = new_words
                            /\ entropy_scores' = compute_entropy_scores(new_words)
                            /\ UNCHANGED <<pc, attempts>>
    /\ UNCHANGED <<prog, WORD_LIST, answer, weights, call>>

\* the loop ran out: return answer, guesses, 0
SimulationFail ==
    /\ pc = "loop" /\ Len(guesses) >= LoopTurns
    /\ pc' = "returned"
    /\ attempts' = 0
    /\ UNCHANGED <<prog, WORD_LIST, answer, weights, words, remaining_guesses,
                   guesses, entropy_scores, guess, result, call>>

OptimizerTurn == prog = "optimizer" /\ SimulationTurn(weights, 1)

OptimizerFail == prog = "optimizer" /\ SimulationFail

\* wordle_simulator_v1 calls best_guess without the weights and never
\* decrements remaining_guesses
SimulatorTurn == prog = "simulator" /\ SimulationTurn(DefaultWeights, 0)

SimulatorFail == prog = "simulator" /\ SimulationFail

-----------------------------------------------------------------------------
(* Interactive solver: wordle_solver of world_player_v1 ("player") *)

\* the longest dictionary an interactive game is played on
MaxPlayerDict == 3

\* how far below zero remaining_guesses is followed
MaxOvertime == 1

\* str.upper() on the characters a user types here
Upper(s) ==
    [ k \in 1..Len(s) |->
        CASE s[k] = "n" -> "N"
          [] s[k] = "g" -> "G"
          [] s[k] = "y" -> "Y"
          [] s[k] = "b" -> "B"
          [] OTHER -> s[k] ]

\* what the user may type after the suggestion g: anything, or, for a user
\* who has the hidden word answer in mind, the true feedback of g against it
UserInputs(g) ==
    IF answer # NoWord
    THEN { TwoPass(g, answer) }
    ELSE { <<"N">>, <<"n">>, AllG, <<"g","g","g","g","g">>,
           <<"B","B","B","B","B">>, <<"b","y","b","b","g">>,
           <<"G","G","B","G","G">> }
           \cup Malformed
           \cup { Feedback(g, a) : a \in Range(WORD_LIST) }
           \cup { TwoPass(g, a) : a \in Range(WORD_LIST) }

\* list.pop() in place of list.remove(x): without the last element
RemoveLast(ws, x) ==
    SubSeq(ws, 1, Len(ws) - 1)

\* list.remove(x): without the first occurrence of x
Remove(ws, x) ==
    LET k == CHOOSE j \in 1..Len(ws) : ws[j] = x /\ \A m \in 1..(j-1) : ws[m] # x
    IN  SubSeq(ws, 1, k - 1) \o SubSeq(ws, k + 1, Len(ws))

\* the loop going on without the test below
no_words_unchecked(ws) == "loop"

\* if not words: print("No words left. Check input."); return
no_words_check(ws) ==
    IF ws = <<>> THEN "no_words_check_input" ELSE "loop"

InitPlayer ==
    /\ prog = "player"
    /\ WORD_LIST \in { d \in Dictionaries : Len(d) <= MaxPlayerDict }
    /\ answer = NoWord
    /\ weights = [base |-> 0, positional |-> 0, entropy |-> 10]
    /\ entropy_scores \in LoadedEntropy(WORD_LIST)
    /\ words = WORD_LIST
    /\ remaining_guesses = InitialGuesses
    /\ guesses = <<>>
    /\ guess = NoWord /\ result = <<>>
    /\ pc = "loop" /\ attempts = -1
    /\ call = NoCall

\* one iteration of the while loop: suggest, read the answer, act on it
PlayerTurn ==
    /\ prog = "player" /\ pc = "loop"
    /\ remaining_guesses > -MaxOvertime
    /\ IF words = <<>>
       THEN /\ pc' = "ValueError"
            /\ UNCHANGED <<guess, result, words, remaining_guesses>>
       ELSE LET g == player_best_guess(words, remaining_guesses, entropy_scores, DefaultWeights)
            IN  \E typed \in UserInputs(g) :
                  LET user_input == Upper(typed)
                  IN  /\ guess' = g
                      /\ result' = user_input
                      /\ IF user_input = <<"N">>
                         THEN IF ~InWord(g, words)
                              THEN /\ pc' = "ValueError"
                                   /\ UNCHANGED <<words, remaining_guesses>>
                              ELSE /\ words' = Remove(words, g)
                                   /\ remaining_guesses' = remaining_guesses - 1
                                   /\ pc' = IF words' = <<>> THEN "no_words_left_to_suggest"
                                            ELSE "loop"
                         ELSE IF user_input = AllG
                         THEN /\ pc' = "solved"
                              /\ UNCHANGED <<words, remaining_guesses>>
                         ELSE /\ words' = filter_words(words, g, user_input)
                              /\ remaining_guesses' = remaining_guesses - 1
                              /\ pc' = no_words_check(words')
    /\ UNCHANGED <<prog, WORD_LIST, answer, weights, entropy_scores, guesses,
                   attempts, call>>

-----------------------------------------------------------------------------
(* The programs *)

Init == InitSimulation \/ InitPlayer

Next ==
    \/ OptimizerTurn
    \/ OptimizerFail
    \/ SimulatorTurn
    \/ SimulatorFail
    \/ PlayerTurn

Spec == Init /\ [][Next]_vars

-----------------------------------------------------------------------------
(* Pure-function calls *)

\* the candidate lists handed to filter_words
FilterLists ==
    { SortedSeq(F) : F \in Families }
      \cup { SortedSeq(S) : S \in (SUBSET CraneFamily \cup SUBSET SpeedFamily) }

\* one evaluation of the feedback expression for a guess and an answer
CallFeedback ==
    /\ call.fn = "feedback" /\ ~call.done
    /\ call' = [call EXCEPT !.done = TRUE, !.ret = Feedback(call.guess, call.answer)]
    /\ UNCHANGED gameVars

\* filter_words(words, guess, result), and the same call on what it returned
CallFilter ==
    /\ call.fn = "filter_words" /\ ~call.done
    /\ \E r \in Patterns \cup Malformed :
         LET ret == filter_words(call.words, call.guess, r)
         IN  call' = [call EXCEPT !.done = TRUE, !.result = r, !.ret = ret,
                                  !.again = filter_words(ret, call.guess, r)]
    /\ UNCHANGED gameVars

IdleGame ==
    /\ prog = "none" /\ WORD_LIST = <<>> /\ answer = NoWord
    /\ weights = [base |-> 0, positional |-> 0, entropy |-> 0]
    /\ words = <<>> /\ remaining_guesses = 0 /\ guesses = <<>>
    /\ entropy_scores = <<>> /\ guess = NoWord /\ result = <<>>
    /\ pc = "none" /\ attempts = 0

InitFeedback ==
    /\ IdleGame
    /\ \E g \in Lexicon, a \in Lexicon :
         call = [fn |-> "feedback", guess |-> g, answer |-> a, done |-> FALSE, ret |-> <<>>]

SpecFeedback == InitFeedback /\ [][CallFeedback]_vars

\* best_guess(words, remaining_guesses, entropy_scores, w_base=.., ..)
CallBestGuess ==
    /\ call.fn = "best_guess" /\ ~call.done
    /\ \E w \in WeightPoints, tbl \in LoadedEntropy(call.words) :
         call' = [call EXCEPT !.done = TRUE, !.weights = w, !.table = tbl,
                              !.ret = best_guess(call.words, tbl, w)]
    /\ UNCHANGED gameVars

\* the lists of up to MaxListLen distinct words of one family, in any order
MaxListLen == 3

Orderings ==
    UNION { { ws \in [1..n -> F] : \A j, k \in 1..n : j # k => ws[j] # ws[k] } :
              <<n, F>> \in (1..MaxListLen) \X Families }

InitBestGuess ==
    /\ IdleGame
    /\ \E ws \in Orderings :
         call = [fn |-> "best_guess", words |-> ws, done |-> FALSE,
                 weights |-> DefaultWeights, table |-> <<>>, ret |-> NoWord]

SpecBestGuess == InitBestGuess /\ [][CallBestGuess]_vars

InitFilter ==
    /\ IdleGame
    /\ \E ws \in FilterLists, g \in Lexicon :
         call = [fn |-> "filter_words", words |-> ws, guess |-> g, done |-> FALSE,
                 result |-> <<>>, ret |-> <<>>, again |-> <<>>]

SpecFilter == InitFilter /\ [][CallFilter]_vars

\* compute_entropy(word, words, ALL_POSSIBLE_PATTERNS); buckets is the
\* feedback_patterns dictionary the call builds
CallEntropy ==
    /\ call.fn = "compute_entropy" /\ ~call.done
    /\ call' = [call EXCEPT !.done = TRUE,
                            !.buckets = feedback_patterns(call.word, call.words),
                            !.ret = compute_entropy(call.word, call.words)]
    /\ UNCHANGED gameVars

InitEntropy ==
    /\ IdleGame
    /\ \E word \in Lexicon, ws \in Dictionaries :
         call = [fn |-> "compute_entropy", word |-> word, words |-> ws,
                 done |-> FALSE, buckets |-> <<>>, ret |-> 0]

SpecEntropy == InitEntropy /\ [][CallEntropy]_vars

\* get_letter_frequencies(words): the Counter, as a function on its keys
CallLetterFrequencies ==
    /\ call.fn = "get_letter_frequencies" /\ ~call.done
    /\ LET keys == UNION { Range(call.words[k]) : k \in 1..Len(call.words) }
       IN  call' = [call EXCEPT !.done = TRUE,
                                !.ret = [ c \in keys |-> letter_frequency(call.words, c) ]]
    /\ UNCHANGED gameVars

InitLetterFrequencies ==
    /\ IdleGame
    /\ \E ws \in Orderings \cup Dictionaries :
         call = [fn |-> "get_letter_frequencies", words |-> ws, done |-> FALSE,
                 ret |-> <<>>]

SpecLetterFrequencies == InitLetterFrequencies /\ [][CallLetterFrequencies]_vars

-----------------------------------------------------------------------------
(* The grid search: optimize_weights and evaluate_weights_parallel of *)
(* wordle_player_optimizer_v1                                         *)

\* np.linspace(0, 1, 11): weight_range[i] is the double nearest to i * 0.1
GridSteps == 11

\* weight_range[i] - i/10 for i = 0..10, in units of 2^-56 / 5 (the doubles
\* 0.1, 0.2, 0.30000000000000004, .., 0.9, 1.0 against the exact tenths)
LinspaceError == <<0, 2, 4, 16, 8, 0, 32, 24, 16, 8, 0>>

\* 2^-53 in that unit: half the distance from 1.0 to the next double; a sum
\* that exceeds 1 by no more than this rounds to 1.0 (ties go to even)
HalfUlp == 40

\* the games per weight point (num_simulations=50 in the source)
NumSimulations == 2

\* the period of the streams of draws followed
StreamLen == 3

\* if w_entropy <= 0: continue
w_entropy_not_positive(i, j) ==
    i + j >= GridSteps - 1

\* w_entropy = 1 - (w_base + w_positional); if w_entropy < 0: the sum of the
\* two doubles, rounded to nearest, exceeds 1.0
w_entropy_negative(i, j) ==
    \/ i + j > GridSteps - 1
    \/ /\ i + j = GridSteps - 1
       /\ LinspaceError[i + 1] + LinspaceError[j + 1] > HalfUlp

\* the weights of grid point (i, j), in tenths
GridWeights(i, j) ==
    [base |-> i, positional |-> j, entropy |-> (GridSteps - 1) - (i + j)]

\* an average as the pair sum, count; count 0 stands for float('inf')
Infinity == [sum |-> 0, n |-> 0]

\* x < y on averages
Less(x, y) ==
    /\ x.n > 0
    /\ y.n = 0 \/ x.sum * y.n < y.sum * x.n

\* sum(attempts) / len(attempts): the failed games counted in
average_of_all(att) ==
    [sum |-> SumFn(att, 1..Len(att)), n |-> Len(att)]

\* valid_attempts = [a for a in attempts if a > 0];
\* sum(valid_attempts) / len(valid_attempts) if valid_attempts else float('inf')
average(att) ==
    LET valid_attempts == SelectSeq(att, LAMBDA a : a > 0)
    IN  IF valid_attempts = <<>> THEN Infinity
        ELSE [sum |-> SumFn(valid_attempts, 1..Len(valid_attempts)),
              n |-> Len(valid_attempts)]

RECURSIVE play(_, _, _, _, _)
\* the loop of simulate_game run to its return: the attempts it returns, or
\* -1 for the ValueError of max() on an empty list
play(ws, tbl, a, w, gs) ==
    IF Len(gs) >= LoopTurns THEN 0
    ELSE IF ws = <<>> THEN -1
    ELSE LET g == best_guess(ws, tbl, w)
         IN  IF g = a THEN solved_attempts(Append(gs, g))
             ELSE LET new_words == filter_words(ws, g, Feedback(g, a))
                  IN  play(new_words, compute_entropy_scores(new_words), a, w,
                           Append(gs, g))

\* simulate_game(WORD_LIST, _, entropy_scores, w_base, w_positional, w_entropy)[2]
\* for the answer random.choice drew
simulate_game(d, tbl, a, w) == play(d, tbl, a, w, <<>>)

\* the streams of indices random.choice may draw from a dictionary: periodic,
\* each draw the first or the last word
Streams(d) == [1..StreamLen -> {1, Len(d)}]

\* random.choice(WORD_LIST) at the t-th draw of a stream
random_choice(stream, t, d) ==
    d[stream[((t - 1) % StreamLen) + 1]]

\* pool.map(simulate, ...) of the n-th evaluation: the attempts of the
\* num_simulations games
pool_map(d, tbl, w, stream, n) ==
    [ k \in 1..NumSimulations |->
        simulate_game(d, tbl, random_choice(stream, (n - 1) * NumSimulations + k, d), w) ]

\* the answers random.choice draws in the games of the n-th evaluation
pool_answers(d, stream, n) ==
    [ k \in 1..NumSimulations |->
        random_choice(stream, (n - 1) * NumSimulations + k, d) ]

\* the ?ATCH words without a repeated letter
DistinctAtch ==
    { word \in { <<Onsets[k],"A","T","C","H">> : k \in 1..(NumOnsets + 2) } :
        Cardinality(Range(word)) = WordLen }

\* the dictionaries the grid search is run on
OptimizerDictionaries ==
    { SortedSeq(F) : F \in Families \cup {DistinctAtch} }

InitOptimize ==
    /\ IdleGame
    /\ \E d \in OptimizerDictionaries :
       \E tbl \in LoadedEntropy(d) :
       \E stream \in Streams(d) :
         call = [fn |-> "optimize_weights", WORD_LIST |-> d, entropy_scores |-> tbl,
                 stream |-> stream, pc |-> "grid", i |-> 0, j |-> 0,
                 best |-> [base |-> 0, positional |-> 0, entropy |-> 0],
                 best_avg_guesses |-> Infinity,
                 evaluated |-> <<>>, ret |-> <<>>]

\* one pass through the body of the inner loop of optimize_weights
OptimizeStep ==
    /\ call.fn = "optimize_weights" /\ call.pc = "grid" /\ call.i < GridSteps
    /\ LET i  == call.i
           j  == call.j
           ni == IF j + 1 < GridSteps THEN i ELSE i + 1
           nj == IF j + 1 < GridSteps THEN j + 1 ELSE 0
       IN  IF w_entropy_negative(i, j)
           THEN call' = [call EXCEPT !.i = ni, !.j = nj]
           ELSE \E att \in { pool_map(call.WORD_LIST, call.entropy_scores,
                                      GridWeights(i, j), call.stream,
                                      Len(call.evaluated) + 1) } :
                  LET avg_guesses == average(att)
                      better      == Less(avg_guesses, call.best_avg_guesses)
                  IN  call' = [call EXCEPT
                                 !.i = ni, !.j = nj,
                                 !.evaluated = Append(@, [w |-> GridWeights(i, j),
                                                          attempts |-> att,
                                                          answers |->
                                                            pool_answers(call.WORD_LIST,
                                                              call.stream,
                                                              Len(call.evaluated) + 1),
                                                          avg |-> avg_guesses]),
                                 !.best = IF better THEN GridWeights(i, j) ELSE @,
                                 !.best_avg_guesses = IF better THEN avg_guesses ELSE @,
                                 !.pc = IF \E k \in 1..Len(att) : att[k] < 0
                                        THEN "ValueError" ELSE "grid"]
    /\ UNCHANGED gameVars

\* return best_w_base, best_w_positional, best_w_entropy
OptimizeReturn ==
    /\ call.fn = "optimize_weights" /\ call.pc = "grid" /\ call.i >= GridSteps
    /\ call' = [call EXCEPT !.pc = "returned", !.ret = call.best]
    /\ UNCHANGED gameVars

SpecOptimize == InitOptimize /\ [][OptimizeStep \/ OptimizeReturn]_vars

-----------------------------------------------------------------------------
(* Interactive games with a user who has a hidden word in mind *)

\* the dictionaries of these games: those of the other games, the ?ATCH words
\* without a repeated letter, and CATCH and HATCH with a word of another family
CallerDictionaries ==
    Dictionaries
      \cup { SortedSeq(DistinctAtch) }
      \cup { SortedSeq({<<"C","A","T","C","H">>, <<"H","A","T","C","H">>, word}) :
               word \in CraneFamily }

\* an interactive game whose user answers every suggestion with the true
\* feedback of a hidden dictionary word
InitCaller ==
    /\ prog = "player"
    /\ WORD_LIST \in CallerDictionaries
    /\ answer \in Range(WORD_LIST)
    /\ weights = [base |-> 0, positional |-> 0, entropy |-> 10]
    /\ entropy_scores \in LoadedEntropy(WORD_LIST)
    /\ words = WORD_LIST
    /\ remaining_guesses = InitialGuesses
    /\ guesses = <<>>
    /\ guess = NoWord /\ result = <<>>
    /\ pc = "loop" /\ attempts = -1
    /\ call = NoCall

SpecCaller == InitCaller /\ [][PlayerTurn]_vars

-----------------------------------------------------------------------------
(* Games running side by side on one dictionary: the games of pool.map, and *)
(* interactive games, over a heap of list objects                           *)

\* the key of the list object the name WORD_LIST is bound to
SharedList == <<0, 0>>

\* words = WORD_LIST: the name bound to the dictionary object itself
list_alias(heap, src, key) ==
    [heap |-> heap, ref |-> src]

\* words = WORD_LIST.copy(): a new list object with the same elements
list_copy(heap, src, key) ==
    [heap |-> heap @@ (key :> heap[src]), ref |-> key]

PoolGames == 1..NumSimulations

\* the dictionaries the games side by side are run on
PoolDictionaries == { SortedSeq(CraneFamily), SortedSeq(SpeedFamily) }

InitPool ==
    /\ IdleGame
    /\ \E d \in PoolDictionaries :
       \E kinds \in [PoolGames -> {"simulate_game", "wordle_solver"}] :
         call = [fn |-> "pool", WORD_LIST |-> d,
                 heap |-> (SharedList :> d),
                 actor |-> 0, op |-> "none",
                 games |-> [ g \in PoolGames |->
                              [kind |-> kinds[g], pc |-> "start", words |-> <<g, 0>>,
                               answer |-> NoWord, turns |-> 0,
                               remaining_guesses |-> InitialGuesses,
                               entropy_scores |-> compute_entropy_scores(d)] ]]

\* the first lines of simulate_game and of wordle_solver
PoolStart(g) ==
    /\ call.fn = "pool" /\ call.games[g].pc = "start"
    /\ \E a \in (IF call.games[g].kind = "simulate_game"
                  THEN Range(call.heap[SharedList]) ELSE {NoWord}) :
         LET c == list_copy(call.heap, SharedList, <<g, 1>>)
         IN  call' = [call EXCEPT !.heap = c.heap, !.actor = g, !.op = "copy",
                                  !.games[g].pc = "loop",
                                  !.games[g].words = c.ref,
                                  !.games[g].answer = a]
    /\ UNCHANGED gameVars

\* one iteration of the loop of simulate_game in game g
PoolSimulationTurn(g) ==
    /\ call.fn = "pool"
    /\ call.games[g].kind = "simulate_game" /\ call.games[g].pc = "loop"
    /\ LET me == call.games[g]
           ws == call.heap[me.words]
       IN  IF me.turns >= LoopTurns
           THEN call' = [call EXCEPT !.actor = g, !.op = "return",
                                     !.games[g].pc = "returned"]
           ELSE IF ws = <<>>
           THEN call' = [call EXCEPT !.actor = g, !.op = "raise",
                                     !.games[g].pc = "ValueError"]
           ELSE LET guess0 == best_guess(ws, me.entropy_scores, DefaultWeights)
                IN  IF guess0 = me.answer
                    THEN call' = [call EXCEPT !.actor = g, !.op = "return",
                                              !.games[g].pc = "returned",
                                              !.games[g].turns = @ + 1]
                    ELSE LET new_words == filter_words(ws, guess0,
                                                       Feedback(guess0, me.answer))
                             key == <<g, me.words[2] + 1>>
                         IN  call' = [call EXCEPT
                                        !.actor = g, !.op = "filter_words",
                                        !.heap = @ @@ (key :> new_words),
                                        !.games[g].words = key,
                                        !.games[g].turns = @ + 1,
                                        !.games[g].remaining_guesses = @ - 1,
                                        !.games[g].entropy_scores =
                                            compute_entropy_scores(new_words)]
    /\ UNCHANGED gameVars

\* one iteration of the loop of wordle_solver in game g
PoolPlayerTurn(g) ==
    /\ call.fn = "pool"
    /\ call.games[g].kind = "wordle_solver" /\ call.games[g].pc = "loop"
    /\ LET me == call.games[g]
           ws == call.heap[me.words]
       IN  IF ws = <<>>
           THEN call' = [call EXCEPT !.actor = g, !.op = "raise",
                                     !.games[g].pc = "ValueError"]
           ELSE LET guess0 == player_best_guess(ws, me.remaining_guesses,
                                                me.entropy_scores, DefaultWeights)
                IN  \E user_input \in {<<"N">>, AllG}
                                      \cup { Feedback(guess0, a) : a \in Range(call.WORD_LIST) } :
                      IF user_input = <<"N">>
                      THEN \* words.remove(guess) changes the list object itself
                           LET left == Remove(ws, guess0)
                           IN  call' = [call EXCEPT
                                          !.actor = g, !.op = "remove",
                                          !.heap[me.words] = left,
                                          !.games[g].remaining_guesses = @ - 1,
                                          !.games[g].pc = IF left = <<>>
                                                          THEN "returned" ELSE "loop"]
                      ELSE IF user_input = AllG
                      THEN call' = [call EXCEPT !.actor = g, !.op = "return",
                                                !.games[g].pc = "returned"]
                      ELSE LET new_words == filter_words(ws, guess0, user_input)
                               key == <<g, me.words[2] + 1>>
                           IN  call' = [call EXCEPT
                                          !.actor = g, !.op = "filter_words",
                                          !.heap = @ @@ (key :> new_words),
                                          !.games[g].words = key,
                                          !.games[g].remaining_guesses = @ - 1,
                                          !.games[g].pc = no_words_check(new_words)]
    /\ UNCHANGED gameVars

PoolNext ==
    \E g \in PoolGames : PoolStart(g) \/ PoolSimulationTurn(g) \/ PoolPlayerTurn(g)

SpecPool == InitPool /\ [][PoolNext]_vars

-----------------------------------------------------------------------------
(* src/wordle_solver.py: the solver with strategic disambiguation *)

CHAMP == <<"C","H","A","M","P">>

HATCH == <<"H","A","T","C","H">>

\* the dictionaries src/wordle_solver.py is run on
SolverDictionaries ==
    { SortedSeq(AtchFamily \cup {CHAMP}), SortedSeq(CraneFamily),
      SortedSeq(SpeedFamily) }

\* WORD_FREQUENCY: empty without word_frequencies.txt, else word -> frequency
\* (a table for which the order of the double scores of score_word is the
\* order of the scaled integers of solver_score_word)
FrequencyTables ==
    { <<>>, (HATCH :> 4) @@ (CRONE :> 3) @@ (SPEED :> 2) }

\* max(a, default=1) over the values of a table
MaxOr1(tbl) ==
    IF DOMAIN tbl = {} THEN 1
    ELSE CHOOSE m \in { tbl[x] : x \in DOMAIN tbl } :
            \A x \in DOMAIN tbl : tbl[x] <= m

\* score_word: base_score / max_base_score + frequency_weight /
\* max_frequency_weight, times max_base_score * max_frequency_weight
solver_score_word(word, ws, freq) ==
    LET letters    == UNION { Range(ws[k]) : k \in 1..Len(ws) }
        lf         == [ c \in letters |-> letter_frequency(ws, c) ]
        base_score == SumFn([ c \in Range(word) |->
                                IF c \in letters THEN lf[c] ELSE 0 ], Range(word))
        max_base_score       == MaxOr1(lf)
        frequency_weight     == IF word \in DOMAIN freq THEN freq[word] ELSE 1
        max_frequency_weight == MaxOr1(freq)
    IN  base_score * max_frequency_weight + frequency_weight * max_base_score

\* max(words, key=lambda word: score_word(word, letter_frequencies))
solver_default_guess(ws, freq) ==
    ArgMaxFirst(ws, [ k \in 1..Len(ws) |-> solver_score_word(ws[k], ws, freq) ])

\* len(set(candidate) & possible_replacements) for the slot idx
coverage(candidate, ws, idx) ==
    Cardinality(Range(candidate) \cap { ws[k][idx] : k \in 1..Len(ws) })

\* the loop over WORD_LIST of lines 72-78: the first word of the dictionary
\* with the largest coverage, NoWord when no coverage exceeds 0
best_disambiguation_word(d, ws, idx) ==
    LET best == { k \in 1..Len(d) :
                    /\ coverage(d[k], ws, idx) > 0
                    /\ \A m \in 1..Len(d) : coverage(d[m], ws, idx) <= coverage(d[k], ws, idx)
                    /\ \A m \in 1..(k - 1) : coverage(d[m], ws, idx) < coverage(d[k], ws, idx) }
    IN  IF best = {} THEN NoWord ELSE d[CHOOSE k \in best : TRUE]

\* best_guess without the test remaining_guesses <= 2
solver_best_guess_unguarded(ws, remaining, last_feedback, d, freq) ==
    IF last_feedback = <<>>
    THEN solver_default_guess(ws, freq)
    ELSE IF /\ Count("G", last_feedback) = 4
            /\ Count("B", last_feedback) = 1
            /\ Len(ws) > remaining
         THEN LET black_letter_index == CHOOSE i \in 1..Len(last_feedback) :
                                            last_feedback[i] = "B"
                  found == best_disambiguation_word(d, ws, black_letter_index)
              IN  IF found # NoWord THEN found ELSE solver_default_guess(ws, freq)
         ELSE solver_default_guess(ws, freq)

\* best_guess(words, remaining_guesses, last_feedback) of src/wordle_solver.py,
\* d the global WORD_LIST, freq the global WORD_FREQUENCY; <<>> is None
solver_best_guess(ws, remaining, last_feedback, d, freq) ==
    IF last_feedback = <<>> \/ remaining <= 2
    THEN solver_default_guess(ws, freq)
    ELSE IF /\ Count("G", last_feedback) = 4
            /\ Count("B", last_feedback) = 1
            /\ Len(ws) > remaining
         THEN LET black_letter_index == CHOOSE i \in 1..Len(last_feedback) :
                                            last_feedback[i] = "B"
                  found == best_disambiguation_word(d, ws, black_letter_index)
              IN  IF found # NoWord THEN found ELSE solver_default_guess(ws, freq)
         ELSE solver_default_guess(ws, freq)

\* the last feedbacks handed to best_guess: None, and patterns with and
\* without four G and one B
LastFeedbacks ==
    { <<>>, <<"B","G","G","G","G">>, <<"G","G","G","B","G">>,
      <<"B","Y","G","G","G">>, <<"B","B","G","G","G">> }

\* best_guess(words, remaining_guesses, last_feedback)
CallSolverBestGuess ==
    /\ call.fn = "solver_best_guess" /\ ~call.done
    /\ call' = [call EXCEPT !.done = TRUE,
                            !.ret = solver_best_guess(call.words, call.remaining_guesses,
                                                      call.last_feedback, call.WORD_LIST,
                                                      call.WORD_FREQUENCY)]
    /\ UNCHANGED gameVars

InitSolverBestGuess ==
    /\ IdleGame
    /\ \E d \in SolverDictionaries :
       \E S \in (SUBSET Range(d)) \ {{}} :
       \E remaining \in 1..InitialGuesses :
       \E last_feedback \in LastFeedbacks :
       \E freq \in FrequencyTables :
         call = [fn |-> "solver_best_guess", WORD_LIST |-> d, WORD_FREQUENCY |-> freq,
                 words |-> SortedSeq(S), remaining_guesses |-> remaining,
                 last_feedback |-> last_feedback, done |-> FALSE, ret |-> NoWord]

SpecSolverBestGuess == InitSolverBestGuess /\ [][CallSolverBestGuess]_vars

\* the condition of lines 94-96 of src/wordle_solver.py at position i
solver_Rejects(word, g, r, i) ==
    \/ r[i] = "G" /\ word[i] # g[i]
    \/ r[i] = "Y" /\ (~InWord(g[i], word) \/ word[i] = g[i])
    \/ r[i] = "B" /\ InWord(g[i], word) /\ Count(g[i], g) = 1

\* filter_words of src/wordle_solver.py; zip stops at the shorter argument
solver_filter_words(ws, g, r) ==
    SelectSeq(ws, LAMBDA word :
        \A i \in 1..Min(Len(g), Len(r)) : ~solver_Rejects(word, g, r, i))

\* the call of line 108 with the last input handed over as last_feedback
solver_last_feedback_passed(r) == r

\* the call of line 108, best_guess(words, remaining_guesses): last_feedback
\* keeps its default None whatever the last input r was
solver_last_feedback(r) == <<>>

InitSolver ==
    /\ prog = "solver"
    /\ WORD_LIST \in SolverDictionaries
    /\ answer = NoWord
    /\ weights = [base |-> 0, positional |-> 0, entropy |-> 0]
    /\ entropy_scores = <<>>
    /\ words = WORD_LIST
    /\ remaining_guesses = InitialGuesses
    /\ guesses = <<>>
    /\ guess = NoWord /\ result = <<>>
    /\ pc = "loop" /\ attempts = -1
    /\ \E freq \in FrequencyTables :
         call = [fn |-> "wordle_solver", WORD_FREQUENCY |-> freq]

\* one iteration of the while loop of wordle_solver, lines 107-126
SolverTurn ==
    /\ prog = "solver" /\ pc = "loop"
    /\ remaining_guesses > -MaxOvertime
    /\ IF words = <<>>
       THEN /\ pc' = "ValueError"
            /\ UNCHANGED <<guess, result, words, remaining_guesses>>
       ELSE LET g == solver_best_guess(words, remaining_guesses,
                                       solver_last_feedback(result), WORD_LIST,
                                       call.WORD_FREQUENCY)
            IN  \E typed \in UserInputs(g) :
                  LET user_input == Upper(typed)
                  IN  /\ guess' = g
                      /\ result' = user_input
                      /\ IF user_input = <<"N">>
                         THEN IF ~InWord(g, words)
                              THEN /\ pc' = "ValueError"
                                   /\ UNCHANGED <<words, remaining_guesses>>
                              ELSE /\ words' = Remove(words, g)
                                   /\ remaining_guesses' = remaining_guesses - 1
                                   /\ pc' = IF words' = <<>> THEN "no_words_left_to_suggest"
                                            ELSE "loop"
                         ELSE IF user_input = AllG
                         THEN /\ pc' = "solved"
                              /\ UNCHANGED <<words, remaining_guesses>>
                         ELSE /\ words' = solver_filter_words(words, g, user_input)
                              /\ remaining_guesses' = remaining_guesses - 1
                              /\ pc' = IF words' = <<>> THEN "no_words_check_input"
                                       ELSE "loop"
    /\ UNCHANGED <<prog, WORD_LIST, answer, weights, entropy_scores, guesses,
                   attempts, call>>

SpecSolver == InitSolver /\ [][SolverTurn]_vars

-----------------------------------------------------------------------------
(* Claims *)

FeedbackDone == call.fn = "feedback" /\ call.done

\* C1: the feedback computed for a guess against an answer marks a letter G or
\* Y at no more positions than the letter occurs in the answer (for SPEED
\* against ABIDE, one of the two E positions is G/Y and the other B).
C1_MarkingsWithinAnswerCount ==
    FeedbackDone =>
        \A c \in Range(call.guess) :
            Cardinality({ i \in 1..WordLen :
                            call.guess[i] = c /\ call.ret[i] \in {"G", "Y"} })
              <= Count(c, call.answer)

\* C5: the feedback of a word guessed against itself is GGGGG.
C5_SelfFeedbackAllCorrect ==
    (FeedbackDone /\ call.guess = call.answer) => call.ret = AllG

C5_Witness ==
    FeedbackDone /\ call.guess = SPEED /\ call.answer = SPEED /\ call.ret = AllG

FilterDone == call.fn = "filter_words" /\ call.done

\* the sublist of ws whose two-pass feedback against g is r
Consistent(ws, g, r) == SelectSeq(ws, LAMBDA word : TwoPass(g, word) = r)

\* C2: filter_words(words, guess, pattern) returns exactly the words w of the
\* input whose two-pass feedback (section 4.1) of guess against w equals
\* pattern.
C2_FilterIsFeedbackPreimage ==
    (FilterDone /\ IsPattern(call.result)) =>
        call.ret = Consistent(call.words, call.guess, call.result)

\* C6: filter_words is idempotent: filtering its own output with the same
\* guess and pattern returns the same words in the same order.
C6_FilterIdempotent ==
    FilterDone => call.again = call.ret

C6_Witness ==
    /\ FilterDone /\ IsPattern(call.result)
    /\ call.ret # <<>> /\ call.ret # call.words /\ call.again = call.ret

Simulated == prog \in {"optimizer", "simulator"}

\* Solved: the last guess is the answer and the attempt count is the number of guesses
Solved ==
    /\ Len(guesses) \in 1..6
    /\ guesses[Len(guesses)] = answer
    /\ attempts = Len(guesses)

\* Exhausted: 6 guesses, none the answer, attempt count 0
Exhausted ==
    /\ Len(guesses) = 6
    /\ \A k \in 1..Len(guesses) : guesses[k] # answer
    /\ attempts = 0

\* C3: a simulated game makes at most 6 guesses and ends in exactly one of
\* Solved (last guess = answer, attempts = number of guesses, 1..6) and
\* Exhausted (6 guesses, none the answer, attempts = 0); it ends in no other
\* way (best_guess never raises on an empty list), until it has ended there
\* is a candidate to guess, and every step either ends it or adds one guess.
C3_Outcome ==
    Simulated =>
        /\ Len(guesses) <= 6
        /\ pc \in {"loop", "returned"}
        /\ pc = "loop" => words # <<>>
        /\ pc = "returned" => (Solved \/ Exhausted) /\ ~(Solved /\ Exhausted)

C3_SolvedOrExhausted ==
    /\ []C3_Outcome
    /\ [][ (Simulated /\ pc = "loop") =>
              \/ pc' = "returned"
              \/ pc' = "loop" /\ Len(guesses') = Len(guesses) + 1 ]_vars

C3_Witness ==
    Simulated /\ pc = "returned" /\ Exhausted

\* C4: the candidate list starts as the full dictionary, and no step of a
\* simulated or interactive game adds a word to it.
C4_CandidatesNeverGrow ==
    /\ words = WORD_LIST
    /\ [][ Range(words') \subseteq Range(words) /\ Len(words') <= Len(words) ]_vars

C4_Witness ==
    /\ prog = "player" /\ result = <<"N">>
    /\ words # <<>> /\ Len(words) < Len(WORD_LIST)

\* C7: a simulated game on a one-word dictionary <<W>> is Solved with attempt
\* count 1 and guess list <<W>>, whatever the weights.
C7_SingletonSolvedInOne ==
    (Simulated /\ Len(WORD_LIST) = 1) =>
        /\ pc = "loop" => (guesses = <<>> /\ words = WORD_LIST)
        /\ pc # "loop" =>
             pc = "returned" /\ attempts = 1 /\ guesses = <<WORD_LIST[1]>>

C7_Witness ==
    /\ Simulated /\ WORD_LIST = <<SPEED>> /\ weights.entropy = 10
    /\ pc = "returned" /\ attempts = 1 /\ guesses = <<SPEED>>

CraneScenario ==
    /\ Simulated
    /\ WORD_LIST = <<CRANE, CRONE, TRACE>>
    /\ answer = CRONE
    /\ Len(guesses) >= 1 /\ guesses[1] = CRANE

\* C8: dictionary {CRANE, CRONE, TRACE}, answer CRONE, first guess CRANE: the
\* feedback is G at positions 0,1,3,4 and B at position 2, the filter leaves
\* exactly CRONE, the next guess is CRONE and the game is Solved in 2 attempts.
C8_CraneCroneScenario ==
    CraneScenario =>
        /\ Len(guesses) = 1 =>
             /\ result = <<"G","G","B","G","G">>
             /\ words = <<CRONE>>
             /\ pc = "loop"
        /\ Len(guesses) > 1 =>
             /\ guesses = <<CRANE, CRONE>>
             /\ pc = "returned" /\ attempts = 2

C8_Witness ==
    CraneScenario /\ guesses = <<CRANE, CRONE>> /\ pc = "returned" /\ attempts = 2

\* C9: in the interactive solver a feedback string that is not 5 symbols of
\* G, Y, B (and is not the N sentinel) is rejected with InvalidPattern: the
\* candidate list and the remaining-guess count stay as they were.
C9_MalformedPatternRejected ==
    [][ (prog = "player" /\ ~IsPattern(result') /\ result' # <<"N">>)
          => /\ words' = words
             /\ remaining_guesses' = remaining_guesses
             /\ pc' = "InvalidPattern" ]_vars

BestGuessDone == call.fn = "best_guess" /\ call.done

\* the composite score of the k-th word of the list best_guess was called on
CallScore(k) == score_word(call.words[k], call.words, call.table, call.weights)

\* the positions of the list whose score is maximal
Maximal == { k \in 1..Len(call.words) :
               \A m \in 1..Len(call.words) : CallScore(m) <= CallScore(k) }

\* C10: best_guess returns a candidate of maximal composite score, and of
\* several candidates of maximal score the lexically smallest, whatever the
\* order of the candidate list.
C10_LexicallySmallestOfMaximal ==
    BestGuessDone =>
        \E k \in Maximal :
            /\ call.ret = call.words[k]
            /\ \A m \in Maximal \ {k} : LexLess(call.words[k], call.words[m])

\* C10 as amended: best_guess returns a candidate of maximal composite score,
\* and of several candidates of maximal score the one that comes first in the
\* candidate list; that is the lexically smallest of them when the list is
\* sorted.
C10_FirstOfMaximal ==
    BestGuessDone =>
        \E k \in Maximal :
            /\ call.ret = call.words[k]
            /\ \A m \in Maximal : k <= m
            /\ IsSorted(call.words) =>
                 \A m \in Maximal \ {k} : LexLess(call.words[k], call.words[m])

C10_Witness ==
    /\ BestGuessDone
    /\ Cardinality(Maximal) > 1
    /\ ~IsSorted(call.words)
    /\ call.ret = call.words[1]
    /\ \E m \in Maximal : LexLess(call.words[m], call.ret)

EntropyDone == call.fn = "compute_entropy" /\ call.done

\* C11: for every word and every non-empty candidate list, the bucket counts
\* compute_entropy builds, summed over the 243 patterns of
\* ALL_POSSIBLE_PATTERNS, equal the number of candidates: every candidate
\* falls in exactly one bucket and every bucket key is one of the 243.
C11_BucketsPartitionCandidates ==
    EntropyDone =>
        /\ Cardinality(Patterns) = 243
        /\ DOMAIN call.buckets \subseteq Patterns
        /\ \* the patterns without a bucket count 0
           SumFn(call.buckets, Patterns \cap DOMAIN call.buckets) = Len(call.words)

C11_Witness ==
    /\ EntropyDone
    /\ Cardinality(DOMAIN call.buckets) >= 2
    /\ \E p \in DOMAIN call.buckets : call.buckets[p] >= 2

\* C12: compute_entropy returns 0 exactly when all candidates give the word
\* the same pattern (a single bucket), and a non-zero entropy otherwise.
C12_ZeroIffSingleBucket ==
    EntropyDone =>
        ( call.ret = 0
            <=> \A j, k \in 1..Len(call.words) :
                    Feedback(call.word, call.words[j])
                        = Feedback(call.word, call.words[k]) )

C12_Witness ==
    /\ EntropyDone /\ call.ret = 0 /\ Len(call.words) >= 2
    /\ ~InWord(call.word, call.words)

FrequenciesDone == call.fn = "get_letter_frequencies" /\ call.done

\* C13 (as claimed): the letter frequency table counts, for each letter, the
\* candidate words that contain it at least once, so that no letter's count
\* exceeds the number of candidates.
C13_PerWordPresence ==
    FrequenciesDone =>
        \A c \in DOMAIN call.ret :
            /\ call.ret[c] = Cardinality({ k \in 1..Len(call.words) :
                                             InWord(c, call.words[k]) })
            /\ call.ret[c] <= Len(call.words)

\* C13 (amended): the letter frequency table counts, for each letter, its
\* occurrences in the candidate words, a word with the letter twice counting
\* twice; a count is at least the number of candidates containing the letter
\* and at most WordLen times the number of candidates.
C13_RawOccurrences ==
    FrequenciesDone =>
        \A c \in DOMAIN call.ret :
            /\ call.ret[c] = SumFn([ k \in 1..Len(call.words) |-> Count(c, call.words[k]) ],
                                   1..Len(call.words))
            /\ call.ret[c] >= Cardinality({ k \in 1..Len(call.words) :
                                              InWord(c, call.words[k]) })
            /\ call.ret[c] <= WordLen * Len(call.words)

C13_Witness ==
    /\ FrequenciesDone
    /\ \E c \in DOMAIN call.ret : call.ret[c] > Len(call.words)

\* C14: in the interactive solver the answer 'N' removes exactly the guess
\* just suggested from the candidates, leaves every other candidate in place
\* and in order, and takes exactly one from the remaining guesses.
C14_RejectRemovesOnlyGuess ==
    [][ (prog = "player" /\ result' = <<"N">>) =>
            /\ pc' \in {"loop", "no_words_left_to_suggest"}
            /\ InWord(guess', words)
            /\ words' = SelectSeq(words, LAMBDA word : word # guess')
            /\ Len(words') = Len(words) - 1
            /\ remaining_guesses' = remaining_guesses - 1 ]_vars

C14_Witness ==
    /\ prog = "player" /\ result = <<"N">> /\ pc = "loop"
    /\ Len(WORD_LIST) = MaxPlayerDict
    /\ words = SelectSeq(WORD_LIST, LAMBDA word : word # guess)
    /\ Len(words) = MaxPlayerDict - 1
    /\ guess # WORD_LIST[Len(WORD_LIST)]
    /\ remaining_guesses = InitialGuesses - 1

NoConsistentWords == pc = "no_words_check_input"

NoWordsToSuggest == pc = "no_words_left_to_suggest"

OrdinaryLoss == Simulated /\ pc = "returned" /\ attempts = 0

\* C15: whenever the candidates become empty during a game the game is in a
\* terminal state and takes no further step (no guess is selected from an
\* empty list); an empty list left by filtering is reported as "no consistent
\* words", which is neither the outcome of rejecting the last candidate nor
\* that of an ordinary loss.
C15_EmptyCandidatesEndGame ==
    /\ [](words = <<>> =>
             /\ NoConsistentWords \/ NoWordsToSuggest
             /\ NoConsistentWords <=> (result # <<"N">>)
             /\ NoWordsToSuggest <=> (result = <<"N">>))
    /\ [](NoConsistentWords => (words = <<>> /\ ~NoWordsToSuggest /\ ~OrdinaryLoss))
    /\ [](OrdinaryLoss => words # <<>>)
    /\ [][words # <<>>]_vars

C15_Witness ==
    /\ prog = "player" /\ words = <<>> /\ NoConsistentWords
    /\ IsPattern(result) /\ guess \in Range(WORD_LIST)

Optimizing == call.fn = "optimize_weights"

OptimizeDone == Optimizing /\ call.pc = "returned"

\* the points (w_base, w_positional) of {0, 0.1, .., 1.0}^2 with sum <= 1
GridPoints ==
    { [base |-> b, positional |-> p, entropy |-> 10 - b - p] :
        <<b, p>> \in { bp \in (0..10) \X (0..10) : bp[1] + bp[2] <= 10 } }

\* C16: optimize_weights evaluates every grid point (w_base, w_positional) of
\* {0, 0.1, .., 1.0}^2 whose sum is at most 1, those with sum exactly 1
\* included, each exactly once and with w_entropy = 1 - w_base - w_positional
\* (66 points), and evaluates no point whose sum exceeds 1.
C16_GridCoveredOnce ==
    Optimizing =>
        /\ \A k \in 1..Len(call.evaluated) : call.evaluated[k].w \in GridPoints
        /\ \A k, m \in 1..Len(call.evaluated) :
              k # m => call.evaluated[k].w # call.evaluated[m].w
        /\ OptimizeDone =>
              /\ { call.evaluated[k].w : k \in 1..Len(call.evaluated) } = GridPoints
              /\ Len(call.evaluated) = 66

C16_Witness ==
    /\ OptimizeDone
    /\ \E k \in 1..Len(call.evaluated) :
         call.evaluated[k].w = [base |-> 3, positional |-> 7, entropy |-> 0]
    /\ \E k \in 1..Len(call.evaluated) :
         call.evaluated[k].w = [base |-> 6, positional |-> 4, entropy |-> 0]

\* C17: optimize_weights returns the evaluated weight point whose average
\* attempt count is the lowest of all evaluated points; when several points
\* share the lowest average it returns the one evaluated first in grid order
\* (w_base outer, w_positional inner).
C17_FirstLowestAverage ==
    OptimizeDone =>
        \E k \in 1..Len(call.evaluated) :
            /\ call.ret = call.evaluated[k].w
            /\ \A m \in 1..Len(call.evaluated) :
                  ~Less(call.evaluated[m].avg, call.evaluated[k].avg)
            /\ \A m \in 1..(k - 1) :
                  Less(call.evaluated[k].avg, call.evaluated[m].avg)

\* C18: evaluate_weights_parallel returns the sum of the attempts of the
\* successful games (attempts > 0) over the number of successful games, the
\* failed games counting in neither; when every game failed it returns
\* infinity without raising, and the grid search goes on to the next point.
C18_AverageOverSuccesses ==
    /\ [](Optimizing =>
             /\ call.pc # "ValueError"
             /\ \A k \in 1..Len(call.evaluated) :
                   LET att == call.evaluated[k].attempts
                       avg == call.evaluated[k].avg
                       won == { g \in 1..Len(att) : att[g] > 0 }
                   IN  /\ Len(att) = NumSimulations
                       /\ avg.n = Cardinality(won)
                       /\ avg.sum = SumFn(att, won)
                       /\ won = {} => avg = Infinity)
    /\ [][ (Optimizing /\ call.i < GridSteps) =>
              /\ call'.pc = "grid"
              /\ call'.i * GridSteps + call'.j = call.i * GridSteps + call.j + 1
              /\ ~w_entropy_negative(call.i, call.j)
                    => Len(call'.evaluated) = Len(call.evaluated) + 1 ]_vars

C18_Witness ==
    /\ Optimizing
    /\ \E k, m \in 1..Len(call.evaluated) :
         /\ k < m
         /\ call.evaluated[k].avg = Infinity
         /\ call.evaluated[m].avg.n = 1
         /\ \E g \in 1..NumSimulations : call.evaluated[m].attempts[g] = 0

PoolRunning == call.fn = "pool"

Started(g) == call.games[g].pc # "start"

\* C19: however the steps of the games running side by side interleave, no
\* step of a game (selecting a guess, filtering, rejecting with 'N') changes
\* the shared dictionary WORD_LIST or the candidate list of another game:
\* every game works on a copy of its own, and filter_words returns a new
\* list and leaves the list it was given unchanged.
C19_GamesKeepToTheirOwnLists ==
    /\ [](PoolRunning =>
             /\ call.heap[SharedList] = call.WORD_LIST
             /\ \A g \in PoolGames :
                   Started(g) =>
                     /\ call.games[g].words # SharedList
                     /\ \A h \in PoolGames \ {g} :
                           Started(h) => call.games[h].words # call.games[g].words)
    /\ [][ PoolRunning =>
              LET g == call'.actor
              IN  /\ call'.heap[SharedList] = call.heap[SharedList]
                  /\ \A h \in PoolGames \ {g} :
                        /\ call'.games[h] = call.games[h]
                        /\ Started(h) => call'.heap[call.games[h].words]
                                            = call.heap[call.games[h].words]
                  /\ call'.op = "filter_words" =>
                        /\ call'.games[g].words \notin DOMAIN call.heap
                        /\ call'.heap[call.games[g].words]
                              = call.heap[call.games[g].words]
                  /\ \A key \in DOMAIN call.heap :
                        call'.heap[key] # call.heap[key] =>
                            (call'.op = "remove" /\ key = call.games[g].words) ]_vars

C19_Witness ==
    /\ PoolRunning
    /\ call.op = "remove"
    /\ call.heap[SharedList] = call.WORD_LIST
    /\ \E g \in PoolGames, h \in PoolGames :
         /\ g # h /\ call.actor = g
         /\ Len(call.heap[call.games[g].words]) < Len(call.WORD_LIST)
         /\ call.games[h].pc = "loop" /\ call.games[h].words[2] >= 2
         /\ call.heap[call.games[h].words] # call.heap[call.games[g].words]

\* C20: every guess of a simulated game is the best guess computed with the
\* weight triple (w_base, w_positional, w_entropy) that was passed to
\* simulate_game, in wordle_simulator_v1 as in wordle_player_optimizer_v1.
C20_GuessUsesPassedWeights ==
    [][ (Simulated /\ pc = "loop" /\ Len(guesses') = Len(guesses) + 1) =>
            guess' = best_guess(words, entropy_scores, weights) ]_vars

\* C21: an interactive game emits at most 6 guesses: the remaining-guess
\* counter never becomes negative, and once it has reached 0 without an
\* all-Correct pattern the solver has stopped and suggests nothing more.
C21_AtMostSixGuesses ==
    prog = "player" =>
        /\ remaining_guesses >= 0
        /\ remaining_guesses = 0 => pc # "loop"

\* C22: within one weight-point evaluation the hidden answers of the
\* simulated games are pairwise distinct words of the dictionary.
C22_DistinctAnswers ==
    Optimizing =>
        \A n \in 1..Len(call.evaluated) :
            LET answers == call.evaluated[n].answers
            IN  /\ \A k \in 1..Len(answers) : InWord(answers[k], call.WORD_LIST)
                /\ \A j, k \in 1..Len(answers) : j # k => answers[j] # answers[k]

SolverBestGuessDone == call.fn = "solver_best_guess" /\ call.done

\* the last feedback has exactly 4 Correct and exactly 1 Absent symbol and
\* the candidates outnumber the remaining guesses
Trigger ==
    /\ Count("G", call.last_feedback) = 4
    /\ Count("B", call.last_feedback) = 1
    /\ Len(call.words) > call.remaining_guesses

\* the letters the candidates have at the Absent position
SlotLetters ==
    LET slot == CHOOSE i \in 1..Len(call.last_feedback) : call.last_feedback[i] = "B"
    IN  { call.words[k][slot] : k \in 1..Len(call.words) }

Covers(word) == Cardinality(Range(word) \cap SlotLetters)

\* a word of the full dictionary with the most letters of the slot
MaximalCoverage(word) ==
    /\ InWord(word, call.WORD_LIST)
    /\ \A m \in 1..Len(call.WORD_LIST) : Covers(call.WORD_LIST[m]) <= Covers(word)

\* the first candidate of maximal score
DefaultArgmax(word) ==
    \E k \in 1..Len(call.words) :
        /\ word = call.words[k]
        /\ \A m \in 1..Len(call.words) :
              solver_score_word(call.words[m], call.words, call.WORD_FREQUENCY)
                <= solver_score_word(word, call.words, call.WORD_FREQUENCY)
        /\ \A m \in 1..(k - 1) :
              solver_score_word(call.words[m], call.words, call.WORD_FREQUENCY)
                < solver_score_word(word, call.words, call.WORD_FREQUENCY)

\* C23 (as claimed): best_guess of src/wordle_solver.py returns, when the last
\* feedback has exactly 4 Correct and 1 Absent symbol and the candidates
\* outnumber the remaining guesses, a word of the full dictionary with the
\* maximal number of distinct letters among those the candidates have at the
\* Absent position, and otherwise the default argmax over the candidates.
C23_StrategicDisambiguation ==
    SolverBestGuessDone =>
        IF Trigger THEN MaximalCoverage(call.ret) ELSE DefaultArgmax(call.ret)

\* C23 (amended): the dictionary word of maximal coverage is returned when
\* the trigger holds and more than 2 guesses remain; with 2 or fewer guesses
\* remaining, or without the trigger, the default argmax over the candidates
\* is returned.
C23_StrategicWithGuessesLeft ==
    SolverBestGuessDone =>
        IF Trigger /\ call.remaining_guesses > 2
        THEN MaximalCoverage(call.ret)
        ELSE DefaultArgmax(call.ret)

C23_Witness ==
    /\ SolverBestGuessDone
    /\ Trigger /\ call.remaining_guesses > 2
    /\ ~InWord(call.ret, call.words)
    /\ MaximalCoverage(call.ret)

\* the entropy of every word of ws measured against ws, and nothing else
FreshTable(ws) == [ word \in Range(ws) |-> compute_entropy(word, ws) ]

\* the first word of ws whose score under the tables of ws itself is maximal
FreshArgmax(ws, w) ==
    ArgMaxFirst(ws, [ k \in 1..Len(ws) |-> score_word(ws[k], ws, FreshTable(ws), w) ])

\* C24: at every guess selection of a game after the first, the frequencies
\* and the entropy table used for scoring are those of the current
\* candidates: after each filtering step the entropy table has exactly the
\* filtered candidates as keys, each with its entropy against them, and the
\* next guess is the argmax under these tables.
C24_TablesOfCurrentCandidates ==
    /\ []((Simulated /\ pc = "loop" /\ guesses # <<>>) =>
              entropy_scores = FreshTable(words))
    /\ [][ (Simulated /\ pc = "loop" /\ guesses # <<>>
              /\ Len(guesses') = Len(guesses) + 1) =>
                guess' = FreshArgmax(words, IF prog = "optimizer" THEN weights
                                            ELSE DefaultWeights) ]_vars
    /\ [][ (prog = "player" /\ pc = "loop" /\ words # <<>>
              /\ remaining_guesses # InitialGuesses) =>
                guess' = FreshArgmax(words, DefaultWeights) ]_vars

C24_Witness ==
    /\ Simulated /\ pc = "loop"
    /\ Len(guesses) >= 2 /\ Len(words) >= 2
    /\ guess = guesses[Len(guesses)]
    /\ entropy_scores = FreshTable(words)
    /\ \E word \in Range(words) : entropy_scores[word] > 0

\* C25: in every reachable state of simulate_game the hidden answer is one of
\* the current candidates: filtering with the feedback the simulator computes
\* never removes the answer, and the candidate list is never empty when
\* best_guess is called.
C25_AnswerStaysCandidate ==
    Simulated =>
        /\ InWord(answer, words)
        /\ pc # "ValueError"

C25_Witness ==
    /\ Simulated /\ pc = "loop" /\ Len(guesses) >= 2
    /\ InWord(answer, words) /\ Len(words) < Len(WORD_LIST)
    /\ \E i \in 1..WordLen : result[i] = "Y"

\* C27: in simulate_game every guess that is not the answer is removed from
\* the candidates by the filtering step that follows it, so the candidate
\* list strictly shrinks each turn and no word is guessed twice in a game.
C27_GuessRemovedEachTurn ==
    /\ [][ (Simulated /\ Len(guesses') = Len(guesses) + 1 /\ guess' # answer) =>
              /\ InWord(guess', words)
              /\ ~InWord(guess', words')
              /\ Len(words') < Len(words) ]_vars
    /\ [](Simulated =>
             \A j, k \in 1..Len(guesses) : j # k => guesses[j] # guesses[k])

C27_Witness ==
    /\ Simulated /\ pc = "loop" /\ Len(guesses) >= 3
    /\ \A k \in 1..Len(guesses) : ~InWord(guesses[k], words)
    /\ Len(words) = Len(WORD_LIST) - Len(guesses)

\* C26: in an interactive game whose user answers every suggestion with the
\* true two-pass feedback of a hidden dictionary word and never enters 'N',
\* the hidden word is never removed from the candidates.
C26_HiddenWordStays ==
    (prog = "player" /\ answer # NoWord) => InWord(answer, words)

\* C28: in the interactive solver every well-formed pattern over G, Y, B
\* other than GGGGG removes the word just guessed from the candidates, so
\* that the candidates strictly shrink on every turn and the same word is
\* never suggested twice.
C28_PatternRemovesGuess ==
    [][ (prog = "player" /\ pc = "loop" /\ words # <<>>
          /\ IsPattern(result') /\ result' # AllG) =>
            /\ ~InWord(guess', words')
            /\ Len(words') < Len(words) ]_vars

\* C29: optimize_weights always returns a weight triple that was evaluated
\* on the grid, hence non-negative and summing to 1, also when every
\* evaluated point has an infinite average.
C29_ReturnsEvaluatedTriple ==
    OptimizeDone =>
        /\ \E k \in 1..Len(call.evaluated) : call.ret = call.evaluated[k].w
        /\ call.ret.base >= 0 /\ call.ret.positional >= 0 /\ call.ret.entropy >= 0
        /\ call.ret.base + call.ret.positional + call.ret.entropy = GridSteps - 1

====
